---- MODULE Spec2Model ----
(***************************************************************************)
(* Batch asset normalizer: the rename-fix workflow (fix-names.py) and the  *)
(* optimize workflow (optimize-assets.py) over a small file tree.          *)
(*                                                                         *)
(* A path is a sequence of components, a component is a sequence of        *)
(* tokens ("car", "-optimized", ".glb", ...).  The token set is prefix     *)
(* free, so comparing token sequences by the rank of the first differing   *)
(* token is the character-wise string comparison Python performs.          *)
(* A file's content is the path it came from plus the number of optimizer  *)
(* passes applied to it; byte sizes and console output are not modelled.   *)
(***************************************************************************)
EXTENDS Integers, Sequences, FiniteSets, TLC

VARIABLES fs, fs0, workflow, pc, files, i, success_count, failed_files,
          resposta, last, prev_clean, run, nfaults, run_faults

vars == <<fs, fs0, workflow, pc, files, i, success_count, failed_files,
          resposta, last, prev_clean, run, nfaults, run_faults>>

(* ------------------------------ bounds --------------------------------- *)
MaxRuns == 2
MaxFaults == 1
MaxFiles == 3

(* ------------------------- tokens, names, paths ------------------------ *)
TokRank(t) ==
    CASE t = "+v2"        -> 0
      [] t = "-optimized" -> 1
      [] t = "-temp"      -> 2
      [] t = ".glb"       -> 3
      [] t = ".gltf"      -> 4
      [] t = "assets"     -> 5
      [] t = "car"        -> 6
      [] t = "originals"  -> 7
      [] t = "public"     -> 8
      [] t = "sub"        -> 9

RECURSIVE NameLess(_, _)
NameLess(n, m) ==
    IF n = <<>> THEN m # <<>>
    ELSE IF m = <<>> THEN FALSE
    ELSE IF Head(n) = Head(m) THEN NameLess(Tail(n), Tail(m))
    ELSE TokRank(Head(n)) < TokRank(Head(m))

RECURSIVE PathLess(_, _)
PathLess(p, q) ==
    IF p = <<>> THEN q # <<>>
    ELSE IF q = <<>> THEN FALSE
    ELSE IF Head(p) = Head(q) THEN PathLess(Tail(p), Tail(q))
    ELSE NameLess(Head(p), Head(q))

PathLeq(p, q) == p = q \/ PathLess(p, q)

ASSETS_DIR == << <<"public">>, <<"assets">> >>
BACKUP_DIR == ASSETS_DIR \o << <<"originals">> >>
SUPPORTED_EXTENSIONS == << <<".glb">>, <<".gltf">> >>

ExtTokens == {".glb", ".gltf"}

Name(p) == p[Len(p)]
Parent(p) == SubSeq(p, 1, Len(p) - 1)
Parents(p) == { SubSeq(p, 1, k) : k \in 0..(Len(p) - 1) }
IsPrefix(d, p) == Len(d) <= Len(p) /\ SubSeq(p, 1, Len(d)) = d
RelativeTo(p, base) == SubSeq(p, Len(base) + 1, Len(p))

DotIndex(n) ==
    LET S == { j \in 2..Len(n) : n[j] \in ExtTokens }
    IN  IF S = {} THEN 0 ELSE CHOOSE j \in S : \A k \in S : k <= j
Suffix(n) == IF DotIndex(n) = 0 THEN <<>> ELSE SubSeq(n, DotIndex(n), Len(n))
Stem(n) == IF DotIndex(n) = 0 THEN n ELSE SubSeq(n, 1, DotIndex(n) - 1)

EndsWith(n, tail) ==
    Len(n) >= Len(tail) /\ SubSeq(n, Len(n) - Len(tail) + 1, Len(n)) = tail

NotMarker(t) == t # "-optimized"
\* variant: only the trailing marker is removed
StripLastMarker(stem) ==
    IF stem # <<>> /\ stem[Len(stem)] = "-optimized"
    THEN SubSeq(stem, 1, Len(stem) - 1) ELSE stem
\* str.replace("-optimized", ""): every occurrence is removed
StripMarker(stem) == SelectSeq(stem, NotMarker)

(* ------------------------------ file tree ------------------------------ *)
DirNode == [kind |-> "dir", origin |-> <<>>, passes |-> 0]
FileNode(o, n) == [kind |-> "file", origin |-> o, passes |-> n]

Exists(f, p) == p \in DOMAIN f
IsDir(f, p) == p \in DOMAIN f /\ f[p].kind = "dir"
IsFile(f, p) == p \in DOMAIN f /\ f[p].kind = "file"

Put(f, p, node) == [q \in (DOMAIN f) \cup {p} |-> IF q = p THEN node ELSE f[q]]
Remove(f, S) == [q \in (DOMAIN f) \ S |-> f[q]]
Subtree(f, p) == { q \in DOMAIN f : IsPrefix(p, q) }

\* Path.mkdir(parents=..., exist_ok=...); inject = the call raises OSError
Mkdir(f, p, parents, exist_ok, inject) ==
    LET missing == { d \in Parents(p) \cup {p} : d # <<>> /\ ~Exists(f, d) }
        blocked == \E d \in Parents(p) : Exists(f, d) /\ ~IsDir(f, d)
    IN  IF inject THEN [fs |-> f, err |-> TRUE]
        ELSE IF Exists(f, p)
             THEN [fs |-> f, err |-> ~(IsDir(f, p) /\ exist_ok)]
        ELSE IF blocked \/ (~parents /\ missing # {p})
             THEN [fs |-> f, err |-> TRUE]
        ELSE [fs |-> [q \in (DOMAIN f) \cup missing |->
                        IF q \in missing THEN DirNode ELSE f[q]],
              err |-> FALSE]

\* Path.unlink()
Unlink(f, p, inject) ==
    IF inject \/ ~IsFile(f, p) THEN [fs |-> f, err |-> TRUE]
    ELSE [fs |-> Remove(f, {p}), err |-> FALSE]

\* shutil.move(src, dst): into dst when dst is a directory, else a rename
\* that replaces an existing file
Move(f, src, dst, inject) ==
    LET real_dst == IF IsDir(f, dst) THEN dst \o <<Name(src)>> ELSE dst
        moved == Subtree(f, src)
        g == Remove(f, moved \cup Subtree(f, real_dst))
    IN  IF inject \/ ~Exists(f, src) \/ ~IsDir(f, Parent(real_dst))
           \/ (IsDir(f, dst) /\ Exists(f, real_dst))
           \/ IsPrefix(src, real_dst)
        THEN [fs |-> f, err |-> TRUE]
        ELSE [fs |-> [q \in (DOMAIN g) \cup
                            { real_dst \o RelativeTo(m, src) : m \in moved } |->
                        IF IsPrefix(real_dst, q)
                        THEN f[src \o RelativeTo(q, real_dst)]
                        ELSE g[q]],
              err |-> FALSE]

(* ------------------------------ discovery ------------------------------ *)
\* fnmatch of a component against "*<tail>"
Matches(n, tail) == EndsWith(n, tail)

\* Path.rglob("*<tail>"): every path below dir whose last component matches
RECURSIVE rglob(_, _, _)
rglob(f, dir, tail) ==
    LET children == { p \in DOMAIN f : Len(p) = Len(dir) + 1 /\ IsPrefix(dir, p) }
    IN  { c \in children : Matches(Name(c), tail) }
        \cup UNION { rglob(f, c, tail) : c \in { d \in children : IsDir(f, d) } }

\* the order in which the directory walk yields its results
RECURSIVE Enumerate(_)
Enumerate(S) ==
    IF S = {} THEN <<>>
    ELSE LET p == CHOOSE x \in S : TRUE IN <<p>> \o Enumerate(S \ {p})

\* variant: only the direct children of the backup root are skipped
InBackupDirect(p) == Parent(p) = BACKUP_DIR
InBackup(p) == BACKUP_DIR \in Parents(p) \/ Parent(p) = BACKUP_DIR
NotInBackup(p) == ~InBackup(p)

sorted(s) == SortSeq(s, PathLess)

RECURSIVE ScanExts(_, _, _)
ScanExts(f, exts, pre) ==
    IF exts = <<>> THEN <<>>
    ELSE SelectSeq(Enumerate(rglob(f, ASSETS_DIR, pre \o Head(exts))), NotInBackup)
         \o ScanExts(f, Tail(exts), pre)

find_optimized_files(f) == sorted(ScanExts(f, << <<".glb">>, <<".gltf">> >>, <<"-optimized">>))
find_files_to_process(f) == sorted(ScanExts(f, SUPPORTED_EXTENSIONS, <<>>))

(* ------------------------- rename-fix: one file ------------------------ *)
\* variant: the directory of the file is dropped
get_original_name_flat(optimized_path) ==
    ASSETS_DIR
        \o << StripMarker(Stem(Name(optimized_path))) \o Suffix(Name(optimized_path)) >>
get_original_name(optimized_path) ==
    Parent(optimized_path)
        \o << StripMarker(Stem(Name(optimized_path))) \o Suffix(Name(optimized_path)) >>

\* the path the displaced file is backed up to
MirrorPath(path) == BACKUP_DIR \o Parent(RelativeTo(path, ASSETS_DIR)) \o <<Name(path)>>
FlatPath(path) == BACKUP_DIR \o <<Name(path)>>

\* overwrite-vs-backup branch: move the occupant to the backup unless a
\* backup is already there, in which case the occupant is deleted
\* variant: the occupant is always deleted
FixDiscardOnly(f, original_path, backup_path, inject) ==
    Unlink(f, original_path, inject)
\* variant: the occupant always replaces the backup
FixAlwaysMove(f, original_path, backup_path, inject) ==
    Move(f, original_path, backup_path, inject)
FixBackupOrDiscard(f, original_path, backup_path, inject) ==
    IF ~Exists(f, backup_path)
    THEN Move(f, original_path, backup_path, inject)
    ELSE Unlink(f, original_path, inject)

\* fix-names.py process_file; k = which filesystem call raises (0: none)
FixProcessFile(f, optimized_path, dry_run, k) ==
    LET original_path == get_original_name(optimized_path)
        original_exists == Exists(f, original_path)
        m == Mkdir(f, Parent(MirrorPath(original_path)), TRUE, TRUE, k = 1)
        backup_path == IF m.err THEN FlatPath(original_path)
                       ELSE MirrorPath(original_path)
        b == IF original_exists
             THEN FixBackupOrDiscard(m.fs, original_path, backup_path, k = 2)
             ELSE [fs |-> f, err |-> FALSE]
        r == Move(b.fs, optimized_path, original_path, k = 3)
    IN  IF dry_run THEN [fs |-> f, ok |-> TRUE, used |-> k = 0]
        ELSE IF b.err THEN [fs |-> b.fs, ok |-> FALSE,
                            used |-> k = 0 \/ (k \in {1, 2} /\ original_exists)]
        ELSE [fs |-> r.fs, ok |-> ~r.err,
              used |-> k = 0 \/ k = 3 \/ (k \in {1, 2} /\ original_exists)]

\* the dry-run pass over every discovered file
RECURSIVE Preview(_, _)
Preview(f, fl) ==
    IF fl = <<>> THEN f
    ELSE Preview(FixProcessFile(f, Head(fl), TRUE, 0).fs, Tail(fl))

(* ----------------------------- the answer ------------------------------ *)
Lower(c) ==
    CASE c = "S" -> "s" [] c = "Y" -> "y" [] c = "E" -> "e"
      [] c = "I" -> "i" [] c = "M" -> "m" [] c = "N" -> "n"
      [] OTHER -> c
RECURSIVE LStrip(_)
LStrip(s) == IF s # <<>> /\ Head(s) = " " THEN LStrip(Tail(s)) ELSE s
RECURSIVE RStrip(_)
RStrip(s) == IF s # <<>> /\ s[Len(s)] = " " THEN RStrip(SubSeq(s, 1, Len(s) - 1)) ELSE s
strip(s) == RStrip(LStrip(s))
lower(s) == [j \in 1..Len(s) |-> Lower(s[j])]

AffirmativeOrBlank == { <<"s">>, <<"s", "i", "m">>, <<"y">>, <<"y", "e", "s">>, <<>> }
Affirmative == { <<"s">>, <<"s", "i", "m">>, <<"y">>, <<"y", "e", "s">> }

NoAnswer == <<"<none>">>
InputFailed == <<"<eof>">>
Answers == { <<"S">>, <<" ", "Y", "e", "s", " ">>,
             <<"n">>, <<" ">>, <<"s", " ", "i", "m">> }

(* -------------------------- optimize: one file ------------------------- *)
\* what the external optimizer did: its exit status and whether it left a
\* file at the output path
Outcomes == [rc : {"ok", "error", "timeout"}, wrote : BOOLEAN]
Nominal(o) == o.rc = "ok" /\ o.wrote

TempPath(file_path) ==
    Parent(file_path)
        \o << Stem(Name(file_path)) \o <<"-temp", "-optimized">> \o Suffix(Name(file_path)) >>

\* run_command_with_encoding: TRUE only for exit status 0 within the timeout
run_command_with_encoding(o) == o.rc = "ok"

\* the tool writes (or replaces) the output path
ToolWrite(f, input_path, output_path, o) ==
    IF o.wrote /\ IsFile(f, input_path) /\ ~IsDir(f, output_path)
    THEN Put(f, output_path, FileNode(f[input_path].origin, f[input_path].passes + 1))
    ELSE f

optimize_file(f, input_path, output_path, o) ==
    LET g == ToolWrite(f, input_path, output_path, o)
    IN  [fs |-> g, success |-> run_command_with_encoding(o) /\ Exists(g, output_path)]

OptBackupOrDiscard(f, file_path, backup_path, inject) ==
    IF ~Exists(f, backup_path)
    THEN Move(f, file_path, backup_path, inject)
    ELSE Unlink(f, file_path, inject)

\* optimize-assets.py process_file; an error of a filesystem call outside
\* the try block leaves the function as an exception (raised)
OptProcessFile(f, file_path, o, k) ==
    LET temp_path == TempPath(file_path)
        opt == optimize_file(f, file_path, temp_path, o)
        u == Unlink(opt.fs, temp_path, k = 1)
        m == Mkdir(opt.fs, Parent(MirrorPath(file_path)), TRUE, TRUE, k = 1)
        backup_path == IF m.err THEN FlatPath(file_path) ELSE MirrorPath(file_path)
        b == OptBackupOrDiscard(m.fs, file_path, backup_path, k = 2)
        r == Move(b.fs, temp_path, file_path, k = 3)
    IN  IF ~opt.success
        THEN IF Exists(opt.fs, temp_path)
             THEN [fs |-> u.fs, ok |-> FALSE, raised |-> u.err,
                   optimized |-> FALSE, used |-> k \in {0, 1}]
             ELSE [fs |-> opt.fs, ok |-> FALSE, raised |-> FALSE,
                   optimized |-> FALSE, used |-> k = 0]
        ELSE IF b.err
        THEN [fs |-> b.fs, ok |-> FALSE, raised |-> TRUE,
              optimized |-> TRUE, used |-> k \in {0, 1, 2}]
        ELSE [fs |-> r.fs, ok |-> ~r.err, raised |-> r.err,
              optimized |-> TRUE, used |-> TRUE]

(* ------------------------------ the runs ------------------------------- *)
NoLast == [file |-> <<>>, ok |-> TRUE, optimized |-> TRUE]
Ended == {"idle", "exit0", "exit1", "done", "crashed"}

\* trees of the rename-fix runs
FixCandidateFiles ==
    { ASSETS_DIR \o << <<"car", ".glb">> >>,
      ASSETS_DIR \o << <<"car", "-optimized", ".glb">> >>,
      ASSETS_DIR \o << <<"car", "-optimized", "-optimized", ".glb">> >>,
      ASSETS_DIR \o << <<"car", "-optimized", ".gltf">> >>,
      ASSETS_DIR \o << <<"car", "+v2", ".glb">> >>,
      ASSETS_DIR \o << <<"car", "+v2", "-optimized", ".glb">> >>,
      ASSETS_DIR \o << <<"car", "-optimized", "+v2", "-optimized", ".glb">> >>,
      ASSETS_DIR \o << <<"sub">>, <<"car", ".glb">> >>,
      ASSETS_DIR \o << <<"sub">>, <<"car", "-optimized", ".glb">> >>,
      BACKUP_DIR \o << <<"car", ".glb">> >>,
      BACKUP_DIR \o << <<"sub">>, <<"car", ".glb">> >> }

\* trees of the runs of both scripts
CandidateFiles ==
    { ASSETS_DIR \o << <<"car", ".glb">> >>,
      ASSETS_DIR \o << <<"car", "-optimized", ".glb">> >>,
      ASSETS_DIR \o << <<"car", "-temp", "-optimized", ".glb">> >>,
      ASSETS_DIR \o << <<"sub">>, <<"car", "-optimized", ".gltf">> >>,
      BACKUP_DIR \o << <<"car", ".glb">> >>,
      BACKUP_DIR \o << <<"sub">>, <<"car", "-optimized", ".gltf">> >> }

Tree(S, D) ==
    LET dirs == (UNION { Parents(p) : p \in S \cup D } \cup D) \ {<<>>}
    IN  [q \in S \cup dirs |-> IF q \in S THEN FileNode(q, 0) ELSE DirNode]

\* the trees with at most MaxFiles files, with or without a backup root, and
\* the tree without an assets root
InitialTrees(C) ==
    { Tree(S, D) : S \in { T \in SUBSET C : Cardinality(T) <= MaxFiles },
                   D \in {{ASSETS_DIR}, {BACKUP_DIR}} }
    \cup { Tree({}, {}) }

Setup(C) ==
    /\ fs \in InitialTrees(C)
    /\ fs0 = fs
    /\ workflow = "none"
    /\ pc = "idle"
    /\ files = <<>>
    /\ i = 0
    /\ success_count = 0
    /\ failed_files = <<>>
    /\ resposta = NoAnswer
    /\ last = NoLast
    /\ prev_clean = FALSE
    /\ run = 0
    /\ nfaults = 0
    /\ run_faults = 0

Init == Setup(CandidateFiles)
InitFix == Setup(FixCandidateFiles)

\* a new invocation of a script: its locals start fresh.  prev_clean records
\* that the invocation before it was a confirmed rename-fix run that reached
\* its summary with an empty failure list.
Begin(w) ==
    /\ pc \in Ended
    /\ run < MaxRuns
    /\ run' = run + 1
    /\ workflow' = w
    /\ prev_clean' = (workflow = "fix" /\ pc = "done" /\ failed_files = <<>>)
    /\ fs0' = fs
    /\ files' = <<>>
    /\ i' = 0
    /\ success_count' = 0
    /\ failed_files' = <<>>
    /\ resposta' = NoAnswer
    /\ last' = NoLast

\* at most MaxFaults steps of a behaviour meet a misbehaving environment (a
\* filesystem call that raises, an optimizer that fails)
Fault(used) ==
    /\ used => nfaults < MaxFaults
    /\ nfaults' = IF used THEN nfaults + 1 ELSE nfaults
    /\ run_faults' = IF used THEN run_faults + 1 ELSE run_faults

RelPath(path) == RelativeTo(path, ASSETS_DIR)

\* fix-names.py main, up to the directory check
FixBegin ==
    /\ Begin("fix")
    /\ pc' = IF Exists(fs, ASSETS_DIR) THEN "discover" ELSE "exit1"
    /\ run_faults' = 0
    /\ UNCHANGED <<fs, nfaults>>

\* discovery, then the dry-run listing
FixDiscover ==
    /\ workflow = "fix" /\ pc = "discover"
    /\ files' = find_optimized_files(fs)
    /\ fs' = IF files' = <<>> THEN fs ELSE Preview(fs, files')
    /\ pc' = IF files' = <<>> THEN "exit0" ELSE "prompt"
    /\ UNCHANGED <<fs0, workflow, i, success_count, failed_files, resposta, last,
                   prev_clean, run, nfaults, run_faults>>

\* the confirmation prompt and, when confirmed, the creation of the backup root
FixAnswer ==
    /\ workflow = "fix" /\ pc = "prompt"
    /\ \E a \in Answers \cup {InputFailed}, inject \in BOOLEAN :
         LET r == IF a = InputFailed THEN InputFailed ELSE lower(strip(a))
             m == Mkdir(fs, BACKUP_DIR, FALSE, TRUE, inject)
         IN  /\ resposta' = r
             /\ IF r = InputFailed \/ r \notin Affirmative
                THEN /\ ~inject
                     /\ pc' = "exit0"
                     /\ fs' = fs
                     /\ Fault(FALSE)
                ELSE /\ fs' = m.fs
                     /\ pc' = IF m.err THEN "crashed" ELSE "loop"
                     /\ Fault(inject)
    /\ UNCHANGED <<fs0, workflow, files, i, success_count, failed_files, last,
                   prev_clean, run>>

FixProcess ==
    /\ workflow = "fix" /\ pc = "loop" /\ i < Len(files)
    /\ \E k \in 0..3 :
         LET r == FixProcessFile(fs, files[i + 1], FALSE, k)
         IN  /\ Fault(k # 0)
             /\ r.used
             /\ fs' = r.fs
             /\ success_count' = IF r.ok THEN success_count + 1 ELSE success_count
             /\ failed_files' = IF r.ok THEN failed_files
                                ELSE Append(failed_files, RelPath(files[i + 1]))
             /\ last' = [file |-> files[i + 1], ok |-> r.ok, optimized |-> TRUE]
    /\ i' = i + 1
    /\ UNCHANGED <<fs0, workflow, pc, files, resposta, prev_clean, run>>

FixSummary ==
    /\ workflow = "fix" /\ pc = "loop" /\ i = Len(files)
    /\ pc' = "done"
    /\ UNCHANGED <<fs, fs0, workflow, files, i, success_count, failed_files,
                   resposta, last, prev_clean, run, nfaults, run_faults>>

\* optimize-assets.py main, up to the tool check
OptBegin ==
    /\ Begin("optimize")
    /\ \E inject \in BOOLEAN, tool \in {"present", "installed", "install_failed"} :
         LET m == Mkdir(fs, BACKUP_DIR, FALSE, TRUE, inject)
             bad == inject \/ tool = "install_failed"
         IN  /\ bad => nfaults < MaxFaults
             /\ nfaults' = IF bad THEN nfaults + 1 ELSE nfaults
             /\ run_faults' = IF bad THEN 1 ELSE 0
             /\ IF ~Exists(fs, ASSETS_DIR)
                THEN /\ ~bad /\ tool = "present"
                     /\ pc' = "exit1" /\ fs' = fs
                ELSE IF m.err
                THEN /\ tool = "present"
                     /\ pc' = "crashed" /\ fs' = m.fs
                ELSE /\ pc' = IF tool = "install_failed" THEN "exit1" ELSE "discover"
                     /\ fs' = m.fs

OptDiscover ==
    /\ workflow = "optimize" /\ pc = "discover"
    /\ files' = find_files_to_process(fs)
    /\ pc' = IF files' = <<>> THEN "exit0" ELSE "loop"
    /\ UNCHANGED <<fs, fs0, workflow, i, success_count, failed_files, resposta, last,
                   prev_clean, run, nfaults, run_faults>>

OptProcess ==
    /\ workflow = "optimize" /\ pc = "loop" /\ i < Len(files)
    /\ \E o \in Outcomes, k \in 0..3 :
         LET r == OptProcessFile(fs, files[i + 1], o, k)
         IN  /\ Fault(k # 0 \/ ~Nominal(o))
             /\ r.used
             /\ fs' = r.fs
             /\ pc' = IF r.raised THEN "crashed" ELSE "loop"
             /\ success_count' = IF r.ok THEN success_count + 1 ELSE success_count
             /\ failed_files' = IF r.ok \/ r.raised THEN failed_files
                                ELSE Append(failed_files, RelPath(files[i + 1]))
             /\ last' = [file |-> files[i + 1], ok |-> r.ok, optimized |-> r.optimized]
    /\ i' = i + 1
    /\ UNCHANGED <<fs0, workflow, files, resposta, prev_clean, run>>

OptSummary ==
    /\ workflow = "optimize" /\ pc = "loop" /\ i = Len(files)
    /\ pc' = "done"
    /\ UNCHANGED <<fs, fs0, workflow, files, i, success_count, failed_files,
                   resposta, last, prev_clean, run, nfaults, run_faults>>

Next ==
    \/ FixBegin
    \/ FixDiscover
    \/ FixAnswer
    \/ FixProcess
    \/ FixSummary
    \/ OptBegin
    \/ OptDiscover
    \/ OptProcess
    \/ OptSummary

Spec == Init /\ [][Next]_vars

NextFix ==
    \/ FixBegin
    \/ FixDiscover
    \/ FixAnswer
    \/ FixProcess
    \/ FixSummary

SpecFix == InitFix /\ [][NextFix]_vars

(* ======================= properties of the claims ====================== *)
YesTokens == { <<"s">>, <<"s", "i", "m">>, <<"y">>, <<"y", "e", "s">> }
UnderAssets(p) == IsPrefix(ASSETS_DIR, p) /\ p # ASSETS_DIR
UnderBackup(p) == IsPrefix(BACKUP_DIR, p)
AssetFile(f, p) == IsFile(f, p) /\ UnderAssets(p) /\ ~UnderBackup(p)
\* originals/<relative directory of p>/<name of p>
BackupOf(p) == BACKUP_DIR \o RelativeTo(p, ASSETS_DIR)
\* X.glb -> X-optimized.glb
Marked(p) == Parent(p) \o << Stem(Name(p)) \o <<"-optimized">> \o Suffix(Name(p)) >>
\* X-optimized.glb -> X.glb
Unmarked(p) ==
    Parent(p) \o << SubSeq(Name(p), 1, Len(Name(p)) - 2) \o <<Name(p)[Len(Name(p))]>> >>
IsGlb(p) == Name(p)[Len(Name(p))] = ".glb"
HasMarker(p) == \E j \in 1..Len(Name(p)) : Name(p)[j] = "-optimized"
EndsMarkedGlb(p) ==
    Len(Name(p)) >= 2 /\ IsGlb(p) /\ Name(p)[Len(Name(p)) - 1] = "-optimized"
\* the state of a path: absent, or the node found there
At(f, p) == IF Exists(f, p) THEN <<f[p]>> ELSE <<>>
BackupSubtree(f) == { <<p, f[p]>> : p \in { q \in DOMAIN f : UnderBackup(q) } }
FixRunDone == workflow = "fix" /\ pc = "done"
NoFsError == run_faults = 0 /\ failed_files = <<>>
\* the name a discovered file is given: its own with every "-optimized" gone
RenamedTo(p) == Parent(p) \o << SelectSeq(Name(p), LAMBDA t : t # "-optimized") >>
\* q is the last discovered file, in processing order, renamed to x
LastRenamedTo(q, x) ==
    /\ \E j \in 1..Len(files) : files[j] = q
    /\ \A j \in 1..Len(files) :
          RenamedTo(files[j]) = x => (files[j] = q \/ PathLess(files[j], q))
OnlyRenamedTo(q, x) ==
    \A j \in 1..Len(files) : RenamedTo(files[j]) = x <=> files[j] = q
NothingRenamedTo(x) ==
    \A j \in 1..Len(files) : RenamedTo(files[j]) # x

\* C1: a rename-fix run whose answer is read but is not one of s, sim, y, yes
\* after trimming and lower-casing, or whose answer cannot be read, ends
\* with exit status 0 and the file tree it started with
C1_DeclineChangesNothing ==
    (workflow = "fix" /\ resposta # NoAnswer /\ resposta \notin YesTokens)
        => (pc = "exit0" /\ fs = fs0)

C1_Witness ==
    /\ workflow = "fix" /\ pc = "exit0" /\ resposta = <<"n">>
    /\ files # <<>> /\ ~Exists(fs, BACKUP_DIR)

\* C2 as stated: with X.glb (A) and X-optimized.glb (B) among the assets, a
\* confirmed rename-fix run in which no filesystem call fails ends with
\* X.glb = B, no X-optimized.glb, and originals/<dir>/X.glb = A
C2_AsStated ==
    (FixRunDone /\ NoFsError) =>
        \A x \in DOMAIN fs0 :
            (AssetFile(fs0, x) /\ IsGlb(x) /\ AssetFile(fs0, Marked(x))) =>
                /\ At(fs, x) = At(fs0, Marked(x))
                /\ ~Exists(fs, Marked(x))
                /\ At(fs, BackupOf(x)) = At(fs0, x)

\* C2 amended: the same, provided X holds no "-optimized" itself, nothing
\* exists yet at originals/<dir>/X.glb, X-optimized.glb is the last
\* discovered file renamed to X.glb and none is renamed to X-optimized.glb
C2_SwapWithFreshBackup ==
    (FixRunDone /\ NoFsError) =>
        \A x \in DOMAIN fs0 :
            (/\ AssetFile(fs0, x) /\ IsGlb(x) /\ AssetFile(fs0, Marked(x))
             /\ ~HasMarker(x)
             /\ ~Exists(fs0, BackupOf(x))
             /\ LastRenamedTo(Marked(x), x)
             /\ NothingRenamedTo(Marked(x))) =>
                /\ At(fs, x) = At(fs0, Marked(x))
                /\ ~Exists(fs, Marked(x))
                /\ At(fs, BackupOf(x)) = At(fs0, x)

C2_Witness ==
    /\ FixRunDone /\ NoFsError
    /\ \E x \in DOMAIN fs0 :
         /\ AssetFile(fs0, x) /\ IsGlb(x) /\ AssetFile(fs0, Marked(x))
         /\ ~HasMarker(x) /\ ~Exists(fs0, BackupOf(x))
         /\ Len(RelativeTo(x, ASSETS_DIR)) = 2
         /\ At(fs, BackupOf(x)) = At(fs0, x)
         /\ At(fs, x) = At(fs0, Marked(x))

\* C3 as stated: with X-optimized.glb and no X.glb among the assets, a
\* confirmed rename-fix run in which no filesystem call fails ends with
\* X.glb holding the former content of X-optimized.glb, no X-optimized.glb,
\* and the whole backup subtree as it was before the run
C3_AsStated ==
    (FixRunDone /\ NoFsError) =>
        \A q \in DOMAIN fs0 :
            (AssetFile(fs0, q) /\ EndsMarkedGlb(q) /\ ~Exists(fs0, Unmarked(q))) =>
                /\ At(fs, Unmarked(q)) = At(fs0, q)
                /\ ~Exists(fs, q)
                /\ BackupSubtree(fs) = BackupSubtree(fs0)

\* C3 amended: provided X-optimized.glb is the only discovered file renamed
\* to X.glb (so X holds no "-optimized" itself) and none is renamed to
\* X-optimized.glb, the run ends with X.glb holding the former content of
\* X-optimized.glb, no X-optimized.glb, and the backup entry of X.glb
\* (originals/<dir>/X.glb) as it was before the run
C3_RenameLeavesBackupEntry ==
    (FixRunDone /\ NoFsError) =>
        \A q \in DOMAIN fs0 :
            (/\ AssetFile(fs0, q) /\ EndsMarkedGlb(q) /\ ~Exists(fs0, Unmarked(q))
             /\ OnlyRenamedTo(q, Unmarked(q))
             /\ NothingRenamedTo(q)) =>
                /\ At(fs, Unmarked(q)) = At(fs0, q)
                /\ ~Exists(fs, q)
                /\ At(fs, BackupOf(Unmarked(q))) = At(fs0, BackupOf(Unmarked(q)))

C3_Witness ==
    /\ FixRunDone /\ NoFsError
    /\ \E q \in DOMAIN fs0 :
         /\ AssetFile(fs0, q) /\ EndsMarkedGlb(q) /\ ~Exists(fs0, Unmarked(q))
         /\ OnlyRenamedTo(q, Unmarked(q))
         /\ Len(RelativeTo(q, ASSETS_DIR)) = 2
         /\ At(fs, Unmarked(q)) = At(fs0, q)
         /\ BackupSubtree(fs) # BackupSubtree(fs0)

C5_FailedOptimizeLeavesFile ==
    (workflow = "optimize" /\ i >= 1 /\ ~last.optimized) =>
        /\ At(fs, last.file) = At(fs0, last.file)
        /\ ~Exists(fs, TempPath(last.file))
        /\ At(fs, BackupOf(last.file)) = At(fs0, BackupOf(last.file))
        /\ \E j \in 1..Len(failed_files) : failed_files[j] = RelPath(last.file)

\* C6: in both workflows no failure while a discovered file is processed
\* ends the run: a failed file is in the failure list, and the run reaches
\* its summary with every file attempted and successes + failures = files
C6_NoGlobalAbort ==
    /\ pc = "crashed" => i = 0
    /\ (i >= 1 /\ ~last.ok) =>
          \E j \in 1..Len(failed_files) : failed_files[j] = RelPath(last.file)
    /\ pc = "done" =>
          (i = Len(files) /\ success_count + Len(failed_files) = Len(files))

\* C7: the optimize workflow changes nothing in the file tree unless the
\* operator has given an affirmative answer
C7_NoChangeBeforeConfirmation ==
    workflow = "optimize" => (resposta \in YesTokens \/ fs = fs0)

\* C8: each discovery returns exactly the paths below the assets root whose
\* name matches its pattern and which are not below originals/, each once,
\* in ascending order of the paths (component by component, each component
\* by its characters), and leaves the file tree as it was
RankBefore(a, b) == TokRank(a) < TokRank(b)
LexBefore(a, b, Less(_, _)) ==
    \E k \in 1..(Len(a) + 1) :
        /\ k <= Len(b)
        /\ \A j \in 1..(k - 1) : a[j] = b[j]
        /\ (k = Len(a) + 1 \/ Less(a[k], b[k]))
ComponentBefore(n, m) == LexBefore(n, m, RankBefore)
PathBefore(p, q) == LexBefore(p, q, ComponentBefore)
FixTargets(f) ==
    { p \in DOMAIN f :
        /\ UnderAssets(p) /\ ~UnderBackup(p)
        /\ Len(Name(p)) >= 2
        /\ Name(p)[Len(Name(p))] \in {".glb", ".gltf"}
        /\ Name(p)[Len(Name(p)) - 1] = "-optimized" }
OptTargets(f) ==
    { p \in DOMAIN f :
        /\ UnderAssets(p) /\ ~UnderBackup(p)
        /\ Name(p)[Len(Name(p))] \in {".glb", ".gltf"} }
ExactAscending(r, S) ==
    /\ { r[j] : j \in 1..Len(r) } = S
    /\ \A a \in 1..Len(r) : \A b \in 1..Len(r) : a < b => PathBefore(r[a], r[b])
SameButBackupRoot(f, g) ==
    /\ DOMAIN f \ {BACKUP_DIR} = DOMAIN g \ {BACKUP_DIR}
    /\ \A p \in DOMAIN f \ {BACKUP_DIR} : f[p] = g[p]
JustDiscovered ==
    \/ pc = "prompt"
    \/ pc = "loop" /\ i = 0
    \/ pc = "exit0" /\ resposta = NoAnswer

C8_DiscoveryExact ==
    /\ (workflow = "fix" /\ JustDiscovered) =>
          /\ ExactAscending(files, FixTargets(fs))
          /\ ExactAscending(find_optimized_files(fs0), FixTargets(fs0))
          /\ SameButBackupRoot(fs, fs0)
          /\ pc # "loop" => fs = fs0
    /\ (workflow = "optimize" /\ JustDiscovered) =>
          /\ ExactAscending(files, OptTargets(fs))
          /\ SameButBackupRoot(fs, fs0)

C8_Witness ==
    /\ workflow = "optimize" /\ pc = "loop" /\ i = 0 /\ run = 2
    /\ Len(files) >= 2
    /\ \E p \in DOMAIN fs : IsFile(fs, p) /\ UnderBackup(p) /\ Parent(p) # BACKUP_DIR
    /\ \E j \in 1..Len(files) : Len(files[j]) = 4

\* C9: no step of either workflow overwrites, moves or deletes a file below
\* originals/; and a step that processes a file without a failure of the
\* environment, finding the destination occupied, deletes the occupant when
\* a backup exists at the mirrored path and otherwise moves it there
C9_BackupsAreKept ==
    [][ /\ \A p \in DOMAIN fs :
              (UnderBackup(p) /\ IsFile(fs, p)) => (Exists(fs', p) /\ fs'[p] = fs[p])
        /\ (pc = "loop" /\ i' = i + 1 /\ nfaults' = nfaults) =>
              LET dest == IF workflow = "fix" THEN get_original_name(files[i + 1])
                          ELSE files[i + 1]
              IN  IsFile(fs, dest) =>
                    IF Exists(fs, BackupOf(dest))
                    THEN /\ At(fs', BackupOf(dest)) = At(fs, BackupOf(dest))
                         /\ At(fs', dest) # At(fs, dest)
                    ELSE At(fs', BackupOf(dest)) = At(fs, dest)
      ]_vars

C9_Witness ==
    /\ workflow = "fix" /\ pc = "loop" /\ i >= 1 /\ last.ok
    /\ LET dest == get_original_name(last.file)
       IN  /\ IsFile(fs0, dest) /\ IsFile(fs0, BackupOf(dest))
           /\ At(fs, BackupOf(dest)) = At(fs0, BackupOf(dest))
           /\ At(fs, dest) = At(fs0, last.file)

\* C10: in the optimize workflow, processing one discovered file leaves
\* every other discovered file that exists in place with its content
C10_OtherFilesUntouched ==
    [][ (workflow = "optimize" /\ pc = "loop" /\ i' = i + 1) =>
            \A j \in 1..Len(files) :
                (j # i + 1 /\ IsFile(fs, files[j])) =>
                    At(fs', files[j]) = At(fs, files[j])
      ]_vars

====
